---- MODULE Spec2Model ----
(***************************************************************************)
(* array-lib: the column-major array descriptor ArrayDim (src/lib.rs) and  *)
(* the Bruker fid decoder (src/bin/bruker-fid-to-cfl.rs).                  *)
(*                                                                         *)
(* Rust slices are 0-based; the sequences below are 1-based, so slot k of  *)
(* the source is position k+1 here.  Offsets, addresses, chunk numbers and *)
(* axis numbers given to the operations keep the source's 0-based values.  *)
(***************************************************************************)
EXTENDS Integers, Sequences, FiniteSets, TLC

(***************************************************************************)
(* Program constants and model bounds                                      *)
(***************************************************************************)
N_DIMS == 16

\* largest axis size / subscript drawn as an input
MaxDim == 3
\* lengths of the leading run of freely chosen entries in an input tuple
LenSet == 0..2

DimSet == 0..MaxDim
\* axes set by with_dim: the first two and the last slot
AxisSet == {0, 1, N_DIMS - 1}

Min(a, b) == IF a < b THEN a ELSE b

\* tuples over S with a length in LenSet
Tuples(S) == UNION {[1..m -> S] : m \in LenSet}

\* inputs of from_shape: a short shape, or a full 16-entry shape made of a
\* short prefix, ones, and a free last entry
ShapeInputs ==
  Tuples(DimSet) \cup
  {[k \in 1..N_DIMS |-> IF k <= Len(p) THEN p[k] ELSE IF k = N_DIMS THEN d ELSE 1] :
     p \in Tuples(DimSet), d \in DimSet}

\* subscript / coordinate tuples handed to calc_addr and the shift operations
CoordInputs == Tuples(DimSet)

\* subscript tuples handed to calc_addr: the short ones, and 17-component
\* ones (a short prefix, zeros, a free 16th and a non-zero 17th component)
AddrInputs ==
  CoordInputs \cup
  {[k \in 1..(N_DIMS + 1) |->
      IF k <= Len(p) THEN p[k]
      ELSE IF k = N_DIMS THEN d
      ELSE IF k = N_DIMS + 1 THEN MaxDim
      ELSE 0] :
     p \in Tuples(DimSet), d \in DimSet}

(***************************************************************************)
(* ArrayDim: pure operators                                                *)
(***************************************************************************)
Ones == [k \in 1..N_DIMS |-> 1]

\* the loop of calc_strides from 1-based position k on, with running stride
RECURSIVE calc_strides_from(_, _, _, _)
calc_strides_from(ds, st, k, stride) ==
  IF k > Len(ds) \/ k > Len(st) THEN st
  ELSE calc_strides_from(ds, [st EXCEPT ![k] = stride], k + 1, stride * ds[k])

calc_strides(ds, st) == calc_strides_from(ds, st, 1, 1)

\* ArrayDim::new
new == [shape |-> Ones, strides |-> Ones]

\* from_shape_dims with the last supplied axis dropped
from_shape_dims_short(sh) == [k \in 1..N_DIMS |-> IF k < Len(sh) THEN sh[k] ELSE 1]

\* the 16-slot dims array of from_shape: the input zipped over ones
from_shape_dims(sh) == [k \in 1..N_DIMS |-> IF k <= Len(sh) THEN sh[k] ELSE 1]

\* ArrayDim::from_shape: strides are computed from the input slice
from_shape(sh) ==
  [shape |-> from_shape_dims(sh), strides |-> calc_strides(sh, Ones)]

\* update_strides: strides recomputed from the 16-slot shape
update_strides(d) == [d EXCEPT !.strides = calc_strides(d.shape, d.strides)]

\* ArrayDim::with_dim (axis is 0-based, asserted < N_DIMS)
with_dim(d, axis, dim) == update_strides([d EXCEPT !.shape[axis + 1] = dim])

RECURSIVE product_from(_, _)
product_from(s, k) == IF k > Len(s) THEN 1 ELSE s[k] * product_from(s, k + 1)

\* iter().product()
product(s) == product_from(s, 1)

\* ArrayDim::numel
numel(d) == product(d.shape)

\* calc_addr_from with the offset assigned instead of accumulated
RECURSIVE calc_addr_from_assign(_, _, _, _)
calc_addr_from_assign(st, idx, k, offset) ==
  IF k > Len(idx) \/ k > Len(st) THEN offset
  ELSE calc_addr_from_assign(st, idx, k + 1, idx[k] * st[k])

\* the zip loop of calc_addr from 1-based position k on
RECURSIVE calc_addr_from(_, _, _, _)
calc_addr_from(st, idx, k, offset) ==
  IF k > Len(idx) \/ k > Len(st) THEN offset
  ELSE calc_addr_from(st, idx, k + 1, offset + idx[k] * st[k])

\* ArrayDim::calc_addr
calc_addr(d, idx) == calc_addr_from(d.strides, idx, 1, 0)

\* calc_idx_from without the division of addr by the axis size
RECURSIVE calc_idx_from_nodiv(_, _, _, _)
calc_idx_from_nodiv(sh, idx, k, addr) ==
  IF k > N_DIMS THEN idx
  ELSE calc_idx_from_nodiv(sh, [idx EXCEPT ![k] = addr % sh[k]], k + 1, addr)

RECURSIVE calc_idx_from(_, _, _, _)
calc_idx_from(sh, idx, k, addr) ==
  IF k > N_DIMS THEN idx
  ELSE calc_idx_from(sh, [idx EXCEPT ![k] = addr % sh[k]], k + 1, addr \div sh[k])

\* ArrayDim::calc_idx (only called with addr < numel, so no axis is 0)
calc_idx(d, addr) == calc_idx_from(d.shape, [k \in 1..N_DIMS |-> 0], 1, addr)

\* position of the first slot, counted from the end, whose size is not 1
\* (0-based, N_DIMS when there is none)
RECURSIVE rev_position(_, _)
rev_position(sh, i) ==
  IF i >= Len(sh) THEN Len(sh)
  ELSE IF sh[Len(sh) - i] # 1 THEN i
  ELSE rev_position(sh, i + 1)

\* shape_ns with new_len one too small
shape_ns_short(d) ==
  LET i == rev_position(d.shape, 0)
  IN  IF i < Len(d.shape) THEN SubSeq(d.shape, 1, Len(d.shape) - i - 1) ELSE <<1>>

\* ArrayDim::shape_ns
shape_ns(d) ==
  LET i == rev_position(d.shape, 0)
  IN  IF i < Len(d.shape) THEN SubSeq(d.shape, 1, Len(d.shape) - i) ELSE <<1>>

\* number of slots the zip of out, input and shape visits
shift_len(d, input, out) == Min(Min(Len(out), Len(input)), Len(d.shape))

\* ArrayDim::fft_shift_coords: the contents of out after the call
fft_shift_coords(d, input, out) ==
  [k \in 1..Len(out) |->
     IF k <= shift_len(d, input, out)
     THEN (input[k] + d.shape[k] \div 2) % d.shape[k]
     ELSE out[k]]

\* ifft_shift_coords shifting by d / 2 as the forward shift does
ifft_shift_coords_floor(d, input, out) ==
  [k \in 1..Len(out) |->
     IF k <= shift_len(d, input, out)
     THEN (input[k] + d.shape[k] \div 2) % d.shape[k]
     ELSE out[k]]

\* ArrayDim::ifft_shift_coords: the contents of out after the call
ifft_shift_coords(d, input, out) ==
  [k \in 1..Len(out) |->
     IF k <= shift_len(d, input, out)
     THEN (input[k] + (d.shape[k] + 1) \div 2) % d.shape[k]
     ELSE out[k]]

\* the shift operations divide by every visited axis size
shift_panics(d, input, out) ==
  \E k \in 1..shift_len(d, input, out) : d.shape[k] = 0

(***************************************************************************)
(* State                                                                   *)
(***************************************************************************)
VARIABLES
  dims,       \* an ArrayDim value: [shape, strides]
  ctor,       \* how dims was built: [op, arg]
  call,       \* the last query made on dims: [op, arg, res, src, chained]
  pc,         \* position of bruker-fid-to-cfl's main
  inp,        \* its inputs: the two files' state, f_oversample, the acqp params
  ext,        \* the fields extracted from acqp
  geo,        \* the derived file geometry
  fid,        \* fid_bytes once read: [read, len, seed]
  fid_data,   \* the output buffer
  allocated,  \* fid_data has been allocated
  todo,       \* chunk pairs no worker has taken yet
  worker,     \* per worker thread, the chunk pair it is decoding (-1: none)
  owner,      \* per chunk pair, the worker that decoded it (0: none yet)
  writes,     \* per output element, how many times it was written
  cfl,        \* the output file: [written, shape, data]
  outcome,    \* how main ended: [kind, what, name, value, expected, actual]
  args,       \* bruker-traj-to-cfl's arguments: [traj_file, readout_size]
  traj_bytes, \* the trajectory file once read: [read, len, seed]
  traj,       \* the f64 slice cast_slice makes of traj_bytes
  points_per_channel,
  cfl_data    \* the trajectory decoder's output buffer

adVars == <<dims, ctor, call>>
trajVars == <<args, traj_bytes, traj, points_per_channel, cfl_data>>
fidVars == <<inp, ext, geo, fid, fid_data, allocated, owner>>
decVars == <<pc, inp, ext, geo, fid, fid_data, allocated, todo, worker, owner,
             writes, cfl, outcome, trajVars>>
vars == <<dims, ctor, call, pc, inp, ext, geo, fid, fid_data, allocated, todo,
          worker, owner, writes, cfl, outcome, args, traj_bytes, traj,
          points_per_channel, cfl_data>>

NoCall == [op |-> "none", arg |-> <<>>, res |-> <<>>, src |-> <<>>, chained |-> FALSE]

\* buffer the caller passes as out: zeros, as long as the input
ZeroBuf(n) == [k \in 1..n |-> 0]

(***************************************************************************)
(* bruker-fid-to-cfl: constants, inputs and pure operators                 *)
(***************************************************************************)
BLOCK_SIZE == 1024
N_ECHOES == "NECHOES"
ACQ_SIZE == "ACQ_size"
N_REPEATS == "NR"
RECEIVERS == "ACQ_ReceiverSelect"
WORD_SIZE == "ACQ_word_size"

\* worker threads of the rayon pool
NWorkers == 2
\* longest receiver-enable mask
MaxRecv == 2

Workers == 1..NWorkers

\* a PvValue of the acqp file: an integer sequence, a boolean sequence
\* (1 = true), a scalar integer or a string; "absent" stands for a key the
\* file does not have
PvAbsent == [kind |-> "absent", ints |-> <<>>, str |-> ""]
PvInts(s) == [kind |-> "ints", ints |-> s, str |-> ""]
PvBools(m) == [kind |-> "bools", ints |-> m, str |-> ""]
PvInt(n) == [kind |-> "int", ints |-> <<n>>, str |-> ""]
PvStr(w) == [kind |-> "str", ints |-> <<>>, str |-> w]

Params(s, m, e, r, w) ==
  [ACQ_size |-> s, ACQ_ReceiverSelect |-> m, NECHOES |-> e, NR |-> r,
   ACQ_word_size |-> w]

\* receiver masks: the first r of MaxRecv receivers enabled, or only the last
MaskSet ==
  {[k \in 1..MaxRecv |-> IF k <= r THEN 1 ELSE 0] : r \in 0..MaxRecv} \cup
  {[k \in 1..MaxRecv |-> IF k = MaxRecv THEN 1 ELSE 0]}

\* acquisition matrices of 0 to 4 axes, the last with one or two blocks per chunk
AcqSizeSet ==
  {<<>>, <<2>>, <<2, 2>>, <<1, 0>>, <<1, 1, 2>>, <<2, 1, 1, 2>>, <<2, 1, 1, 1>>,
   <<65, 1>>}
EchoSet == {0, 1}
RepeatSet == {0, 1, 2}
WordSizeSet == {"_32_BIT", "_16_BIT"}
\* f_oversample: <<>> is None, <<n>> is Some(n)
OversampleSet == {<<>>, <<0>>, <<2>>}

GoodParamsSet ==
  {Params(PvInts(s), PvBools(m), PvInt(e), PvInt(r), PvStr(w)) :
     s \in AcqSizeSet, m \in MaskSet, e \in EchoSet, r \in RepeatSet,
     w \in WordSizeSet}

BaseParams == Params(PvInts(<<2, 2>>), PvBools(<<1>>), PvInt(1), PvInt(1),
                     PvStr("_32_BIT"))

\* acqp files with one key absent or holding a value of another type
BadParamsSet ==
  {[BaseParams EXCEPT !.ACQ_size = v] : v \in {PvAbsent, PvStr("x")}} \cup
  {[BaseParams EXCEPT !.ACQ_ReceiverSelect = v] : v \in {PvAbsent, PvInt(1)}} \cup
  {[BaseParams EXCEPT !.NECHOES = v] : v \in {PvAbsent, PvStr("x")}} \cup
  {[BaseParams EXCEPT !.NR = v] : v \in {PvAbsent, PvInts(<<1, 1>>)}} \cup
  {[BaseParams EXCEPT !.ACQ_word_size = v] : v \in {PvAbsent, PvInt(32)}} \cup
  \* two faults at once
  {[BaseParams EXCEPT !.NR = PvAbsent, !.ACQ_size = PvStr("x")],
   [BaseParams EXCEPT !.NECHOES = PvStr("x"), !.ACQ_word_size = PvStr("_16_BIT")],
   [BaseParams EXCEPT !.ACQ_ReceiverSelect = PvInt(1), !.ACQ_word_size = PvAbsent]}

Input(a, f, o, p) == [acqp_file |-> a, fid_file |-> f, f_oversample |-> o, params |-> p]

NoInput == Input("ok", "ok", <<>>, BaseParams)

DecodeInputs ==
  {Input("ok", "ok", o, p) : o \in OversampleSet, p \in GoodParamsSet} \cup
  {Input("ok", "ok", <<>>, p) : p \in BadParamsSet} \cup
  {Input(a, f, <<>>, BaseParams) :
     a \in {"ok", "unreadable", "unparsable"}, f \in {"ok", "unreadable"}}

\* contents of the fid file: byte i is
\* (a * i + b * (i div 256) + c + pat[i mod 8]) mod 256, so that no two chunks
\* hold the same bytes; pat is the little-endian image of one complex sample
NoPat == <<0, 0, 0, 0, 0, 0, 0, 0>>
\* the sample (i32::MAX, i32::MIN)
ExtremesPat == <<255, 255, 255, 127, 0, 0, 0, 128>>
SeedSet ==
  {[a |-> 1, b |-> 1, c |-> 0, pat |-> NoPat],
   [a |-> 85, b |-> 3, c |-> 251, pat |-> NoPat],
   [a |-> 0, b |-> 0, c |-> 0, pat |-> ExtremesPat]}
Byte(seed, i) ==
  (seed.a * i + seed.b * (i \div 256) + seed.c + seed.pat[(i % 8) + 1]) % 256

NoExt == [acq_size |-> <<>>, receivers |-> 0, n_echoes |-> 0, n_repeats |-> 0,
          bytes_per_sample |-> 0, oversampling_factor |-> 0]
NoGeo == [chunk_size_samples |-> 0, total_samples |-> 0, n_chunks |-> 0,
          samples_per_block |-> 0, blocks_per_chunk |-> 0, n_fid_samples |-> 0,
          expected_fid_file_size_bytes |-> 0]
NoFid == [read |-> FALSE, len |-> 0,
          seed |-> [a |-> 0, b |-> 0, c |-> 0, pat |-> NoPat]]
NoCfl == [written |-> FALSE, shape |-> <<>>, data |-> <<>>]

Outcome(k, w, n, v, e, a) ==
  [kind |-> k, what |-> w, name |-> n, value |-> v, expected |-> e, actual |-> a]
Running == Outcome("running", "", "", PvAbsent, 0, 0)
Ok == Outcome("ok", "", "", PvAbsent, 0, 0)
\* Err(FidToCflError::...) returned from main
FieldNotFound(n) == Outcome("err", "FieldNotFound", n, PvAbsent, 0, 0)
UnexpectedFormat(v) == Outcome("err", "UnexpectedFormat", "", v, 0, 0)
UnexpectedDataType(w) == Outcome("err", "UnexpectedDataType", w, PvAbsent, 0, 0)
IOError == Outcome("err", "IO", "", PvAbsent, 0, 0)
PVError == Outcome("err", "PV", "", PvAbsent, 0, 0)
\* a panic (index out of bounds, division by zero, failed assertion)
Panic(w) == Outcome("panic", w, "", PvAbsent, 0, 0)
PanicSize(e, a) == Outcome("panic", "unexpected fid file size", "", PvAbsent, e, a)

RECURSIVE sum_from(_, _)
sum_from(s, k) == IF k > Len(s) THEN 0 ELSE s[k] + sum_from(s, k + 1)

\* PvValue conversions (bruker_jcamp_rs): Some only for the matching variant
to_vec_usize_ok(v) == v.kind = "ints"
to_vec_bool_ok(v) == v.kind = "bools"
to_usize_ok(v) == v.kind = "int"
to_string(v) == IF v.kind = "str" THEN v.str ELSE "?"

\* args.f_oversample.unwrap_or(1)
unwrap_or_1(o) == IF o = <<>> THEN 1 ELSE o[1]

\* extract_outcome with an unrecognized word size taken as 8 bytes per sample
extract_outcome_default8(p) ==
  IF p.ACQ_size.kind = "absent" THEN FieldNotFound(ACQ_SIZE)
  ELSE IF p.ACQ_ReceiverSelect.kind = "absent" THEN FieldNotFound(RECEIVERS)
  ELSE IF p.NECHOES.kind = "absent" THEN FieldNotFound(N_ECHOES)
  ELSE IF p.NR.kind = "absent" THEN FieldNotFound(N_REPEATS)
  ELSE IF ~to_vec_usize_ok(p.ACQ_size) THEN UnexpectedFormat(p.ACQ_size)
  ELSE IF ~to_vec_bool_ok(p.ACQ_ReceiverSelect) THEN UnexpectedFormat(p.ACQ_ReceiverSelect)
  ELSE IF ~to_usize_ok(p.NECHOES) THEN UnexpectedFormat(p.NECHOES)
  ELSE IF ~to_usize_ok(p.NR) THEN UnexpectedFormat(p.NR)
  ELSE IF p.ACQ_word_size.kind = "absent" THEN FieldNotFound(WORD_SIZE)
  ELSE Running

\* main, lines 65-84: the first failure in source order, or Running
extract_outcome(p) ==
  IF p.ACQ_size.kind = "absent" THEN FieldNotFound(ACQ_SIZE)
  ELSE IF p.ACQ_ReceiverSelect.kind = "absent" THEN FieldNotFound(RECEIVERS)
  ELSE IF p.NECHOES.kind = "absent" THEN FieldNotFound(N_ECHOES)
  ELSE IF p.NR.kind = "absent" THEN FieldNotFound(N_REPEATS)
  ELSE IF ~to_vec_usize_ok(p.ACQ_size) THEN UnexpectedFormat(p.ACQ_size)
  ELSE IF ~to_vec_bool_ok(p.ACQ_ReceiverSelect) THEN UnexpectedFormat(p.ACQ_ReceiverSelect)
  ELSE IF ~to_usize_ok(p.NECHOES) THEN UnexpectedFormat(p.NECHOES)
  ELSE IF ~to_usize_ok(p.NR) THEN UnexpectedFormat(p.NR)
  ELSE IF p.ACQ_word_size.kind = "absent" THEN FieldNotFound(WORD_SIZE)
  ELSE IF to_string(p.ACQ_word_size) # "_32_BIT"
       THEN UnexpectedDataType(to_string(p.ACQ_word_size))
  ELSE Running

\* main, lines 58 and 70-84: the extracted values
extract_fields(i) ==
  [acq_size |-> i.params.ACQ_size.ints,
   receivers |-> sum_from(i.params.ACQ_ReceiverSelect.ints, 1),
   n_echoes |-> i.params.NECHOES.ints[1],
   n_repeats |-> i.params.NR.ints[1],
   bytes_per_sample |-> 8,
   oversampling_factor |-> unwrap_or_1(i.f_oversample)]

\* main, line 87
chunk_size_samples(e) ==
  (e.acq_size[1] \div e.oversampling_factor) * e.receivers * e.n_echoes

\* main, line 89
total_samples(e) == chunk_size_samples(e) * product(Tail(e.acq_size)) * e.n_repeats

\* main, lines 87-91: the panic of the geometry derivation, or Running
plan_outcome(e) ==
  IF Len(e.acq_size) = 0 THEN Panic("index out of bounds")
  ELSE IF e.oversampling_factor = 0 THEN Panic("attempt to divide by zero")
  ELSE IF chunk_size_samples(e) = 0 THEN Panic("attempt to divide by zero")
  ELSE Running

\* main, lines 87-101
plan(e) ==
  LET css == chunk_size_samples(e)
      total == total_samples(e)
      nc == total \div css
      spb == BLOCK_SIZE \div e.bytes_per_sample
      bpc == (css * e.bytes_per_sample + BLOCK_SIZE - 1) \div BLOCK_SIZE
  IN  [chunk_size_samples |-> css, total_samples |-> total, n_chunks |-> nc,
       samples_per_block |-> spb, blocks_per_chunk |-> bpc,
       n_fid_samples |-> nc * bpc * spb,
       expected_fid_file_size_bytes |-> nc * bpc * BLOCK_SIZE]

\* file lengths tried against an expected length
FidLens(expected) == {n \in {expected - 1, expected, expected + 1} : n >= 0}

\* the assert_eq of lines 119-123 accepting a file longer than expected
size_ok_at_least(len, expected) == len >= expected

\* the assert_eq of lines 119-123
size_ok(len, expected) == len = expected

RECURSIVE Pow2(_)
Pow2(n) == IF n = 0 THEN 1 ELSE 2 * Pow2(n - 1)

\* number of bits of a non-negative integer
RECURSIVE BitLen(_)
BitLen(a) == IF a < 16777216 THEN 24 ELSE 1 + BitLen(a \div 2)

\* the i32 cast_slice reads at a byte offset (little-endian target)
i32_at(f, off) ==
  LET b0 == Byte(f.seed, off)
      b1 == Byte(f.seed, off + 1)
      b2 == Byte(f.seed, off + 2)
      b3 == Byte(f.seed, off + 3)
      hi == IF b3 >= 128 THEN b3 - 256 ELSE b3
  IN  hi * 16777216 + b2 * 65536 + b1 * 256 + b0

\* as_f32 rounding toward zero
as_f32_trunc(v) ==
  IF v = -2147483647 - 1 THEN <<-8388608, 8>>
  ELSE
    LET a == IF v < 0 THEN -v ELSE v
        sgn == IF v < 0 THEN -1 ELSE 1
        e == IF BitLen(a) > 24 THEN BitLen(a) - 24 ELSE 0
        q == a \div Pow2(e)
    IN  <<sgn * q, e>>

\* `v as f32`: an f32 is <<m, e>>, the value m * 2^e with |m| < 2^24 (24-bit
\* significand); rounding is to nearest, ties to even
as_f32(v) ==
  IF v = -2147483647 - 1 THEN <<-8388608, 8>>
  ELSE
    LET a == IF v < 0 THEN -v ELSE v
        sgn == IF v < 0 THEN -1 ELSE 1
        e == IF BitLen(a) > 24 THEN BitLen(a) - 24 ELSE 0
        q == a \div Pow2(e)
        r == a % Pow2(e)
        up == e > 0 /\ (2 * r > Pow2(e) \/ (2 * r = Pow2(e) /\ q % 2 = 1))
        m == IF up THEN q + 1 ELSE q
    IN  IF m = 16777216 THEN <<sgn * 8388608, e + 1>> ELSE <<sgn * m, e>>

Complex32(re, im) == [re |-> re, im |-> im]
ZERO == Complex32(as_f32(0), as_f32(0))

\* par_chunks_exact over the bytes ignoring the block padding
chunk_bytes_start_packed(g, e, c) == c * (g.chunk_size_samples * e.bytes_per_sample)

\* par_chunks_exact(blocks_per_chunk * BLOCK_SIZE): first byte of chunk c
chunk_bytes_start(g, e, c) == c * (g.blocks_per_chunk * BLOCK_SIZE)

\* par_chunks_exact_mut with neighbouring chunks sharing an element
chunk_data_start_overlap(g, c) == c * g.chunk_size_samples - c

\* par_chunks_exact_mut(chunk_size_samples): first element of output chunk c
chunk_data_start(g, c) == c * g.chunk_size_samples

\* number of (byte chunk, output chunk) pairs the zip yields
n_pairs(g, f, data) ==
  Min(f.len \div (g.blocks_per_chunk * BLOCK_SIZE), Len(data) \div g.chunk_size_samples)

\* number of elements the closure writes in one chunk: the zip of
\* y.chunks_exact(2) with the output chunk
n_written(g, e) ==
  Min(((g.chunk_size_samples * e.bytes_per_sample) \div 4) \div 2, g.chunk_size_samples)

\* the closure of lines 129-138: element j of chunk c
decode_sample(g, e, f, c, j) ==
  LET x0 == chunk_bytes_start(g, e, c)
  IN  Complex32(as_f32(i32_at(f, x0 + 4 * (2 * j))),
                as_f32(i32_at(f, x0 + 4 * (2 * j + 1))))

\* the closure writes output position k (0-based) when run on chunk c
chunk_writes(g, e, c, k) ==
  /\ chunk_data_start(g, c) <= k
  /\ k < chunk_data_start(g, c) + n_written(g, e)

\* fid_data after the closure ran on chunk c
decode_chunk(g, e, f, data, c) ==
  [k \in 1..Len(data) |->
     IF chunk_writes(g, e, c, k - 1)
     THEN decode_sample(g, e, f, c, (k - 1) - chunk_data_start(g, c))
     ELSE data[k]]

\* main, lines 140-144: the argument of from_shape
output_shape(e) ==
  <<e.acq_size[1] \div e.oversampling_factor, e.receivers, e.n_echoes,
    e.acq_size[2], IF Len(e.acq_size) >= 3 THEN e.acq_size[3] ELSE 1, e.n_repeats>>

\* the decoder's variables while only ArrayDim is exercised
(***************************************************************************)
(* bruker-traj-to-cfl: inputs and pure operators                           *)
(***************************************************************************)
\* largest readout_size argument
MaxReadout == 2

TrajArgs(f, r) == [traj_file |-> f, readout_size |-> r]
NoArgs == TrajArgs("none", 0)
TrajInputs == {TrajArgs(f, r) : f \in {"ok", "unreadable"}, r \in 0..MaxReadout}

\* lengths of the trajectory file in bytes: 0, 1, 3, 5 and 6 doubles, and one
\* length that is not a whole number of doubles
TrajByteLens == {0, 8, 20, 24, 40, 48}

\* an f64 is <<m, e>>, the value m * 2^e with m odd or 0; among the values
\* are some that no f32 holds (2^24 + 1, -(2^25 - 1) * 4)
F64Table ==
  <<(<<0, 0>>), (<<1, 0>>), (<<-3, -1>>), (<<16777217, 0>>), (<<5, -3>>),
    (<<-33554431, 2>>), (<<1, -1>>)>>
TrajSeedSet == {[a |-> 1, c |-> 1], [a |-> 3, c |-> 0]}
\* the i-th double of the file (0-based)
F64At(seed, i) == F64Table[((seed.a * i + seed.c) % Len(F64Table)) + 1]
NoTrajBytes == [read |-> FALSE, len |-> 0, seed |-> [a |-> 0, c |-> 0]]

\* bytemuck::cast_slice::<u8, f64> panics unless the bytes are whole doubles
cast_slice_ok(b) == b.len % 8 = 0
cast_slice(b) == [k \in 1..(b.len \div 8) |-> F64At(b.seed, k - 1)]

\* the size assertion looking at the divisibility by 3 only
traj_len_ok_by3(n, r) == n % 3 = 0

\* line 33: the condition of the assertion (r is not 0)
traj_len_ok(n, r) == n % (3 * r) = 0

\* `*f as f32`: the significand rounded to 24 bits, to nearest, ties to even
f64_as_f32(v) ==
  LET r == as_f32(v[1])
  IN  <<r[1], r[2] + v[2]>>

\* the closure of lines 38-41 on one element
traj_sample(f) == Complex32(f64_as_f32(f), as_f32(0))

\* line 43: the shape handed to from_shape
traj_shape(a, ppc) == <<3, a.readout_size, ppc>>

TrajIdle ==
  /\ args = NoArgs
  /\ traj_bytes = NoTrajBytes
  /\ traj = <<>>
  /\ points_per_channel = 0
  /\ cfl_data = <<>>

DecoderIdle ==
  /\ pc = "idle"
  /\ inp = NoInput
  /\ ext = NoExt
  /\ geo = NoGeo
  /\ fid = NoFid
  /\ fid_data = <<>>
  /\ allocated = FALSE
  /\ todo = {}
  /\ worker = [w \in Workers |-> -1]
  /\ owner = <<>>
  /\ writes = <<>>
  /\ cfl = NoCfl
  /\ outcome = Running

Init ==
  /\ dims = new
  /\ ctor = [op |-> "new", arg |-> <<>>]
  /\ call = NoCall
  /\ DecoderIdle
  /\ TrajIdle

(***************************************************************************)
(* ArrayDim: one action per operation                                      *)
(***************************************************************************)
\* The caller holds one result at a time: a new operation starts once the
\* previous result has been dropped (Return), except for the two chained
\* calls, which consume the result they follow.
Idle == call.op = "none"

Return ==
  /\ ~Idle
  /\ call' = NoCall
  /\ UNCHANGED <<dims, ctor>>
  /\ UNCHANGED decVars

New ==
  /\ Idle
  /\ dims' = new
  /\ ctor' = [op |-> "new", arg |-> <<>>]
  /\ call' = NoCall
  /\ UNCHANGED decVars

FromShape ==
  \E sh \in ShapeInputs :
    /\ Idle
    /\ dims' = from_shape(sh)
    /\ ctor' = [op |-> "from_shape", arg |-> sh]
    /\ call' = NoCall
    /\ UNCHANGED decVars

WithDim ==
  \E axis \in AxisSet, dim \in DimSet :
    /\ Idle
    /\ axis < N_DIMS
    /\ dims' = with_dim(dims, axis, dim)
    /\ ctor' = [op |-> "with_dim", arg |-> <<axis, dim>>]
    /\ call' = NoCall
    /\ UNCHANGED decVars

Numel ==
  /\ Idle
  /\ call' = [op |-> "numel", arg |-> <<>>, res |-> <<numel(dims)>>, src |-> <<>>,
              chained |-> FALSE]
  /\ UNCHANGED <<dims, ctor>>
  /\ UNCHANGED decVars

ShapeNs ==
  /\ Idle
  /\ call' = [op |-> "shape_ns", arg |-> <<>>, res |-> shape_ns(dims), src |-> <<>>,
              chained |-> FALSE]
  /\ UNCHANGED <<dims, ctor>>
  /\ UNCHANGED decVars

\* calc_idx(addr), addr within the buffer (the debug_assert of the source)
CalcIdx ==
  \E addr \in 0..(numel(dims) - 1) :
    /\ Idle
    /\ call' = [op |-> "calc_idx", arg |-> <<addr>>, res |-> calc_idx(dims, addr),
                src |-> <<>>, chained |-> FALSE]
    /\ UNCHANGED <<dims, ctor>>
    /\ UNCHANGED decVars

\* calc_addr on a subscript tuple supplied by the caller
CalcAddr ==
  \E idx \in AddrInputs :
    /\ Idle
    /\ call' = [op |-> "calc_addr", arg |-> idx, res |-> <<calc_addr(dims, idx)>>,
                src |-> <<>>, chained |-> FALSE]
    /\ UNCHANGED <<dims, ctor>>
    /\ UNCHANGED decVars

\* calc_addr on the subscripts calc_idx just returned (tests::test3);
\* src keeps the offset they came from
CalcAddrOfIdx ==
  /\ call.op = "calc_idx"
  /\ call' = [op |-> "calc_addr", arg |-> call.res,
              res |-> <<calc_addr(dims, call.res)>>, src |-> call.arg,
              chained |-> TRUE]
  /\ UNCHANGED <<dims, ctor>>
  /\ UNCHANGED decVars

FftShiftCoords ==
  \E c \in CoordInputs :
    /\ Idle
    /\ ~shift_panics(dims, c, ZeroBuf(Len(c)))
    /\ call' = [op |-> "fft_shift_coords", arg |-> c,
                res |-> fft_shift_coords(dims, c, ZeroBuf(Len(c))), src |-> <<>>,
                chained |-> FALSE]
    /\ UNCHANGED <<dims, ctor>>
    /\ UNCHANGED decVars

IfftShiftCoords ==
  \E c \in CoordInputs :
    /\ Idle
    /\ ~shift_panics(dims, c, ZeroBuf(Len(c)))
    /\ call' = [op |-> "ifft_shift_coords", arg |-> c,
                res |-> ifft_shift_coords(dims, c, ZeroBuf(Len(c))), src |-> <<>>,
                chained |-> FALSE]
    /\ UNCHANGED <<dims, ctor>>
    /\ UNCHANGED decVars

\* ifft_shift_coords on the coordinates fft_shift_coords just produced
\* (tests::t_fftshift); src keeps the original coordinates
IfftOfFft ==
  /\ call.op = "fft_shift_coords"
  /\ ~shift_panics(dims, call.res, ZeroBuf(Len(call.res)))
  /\ call' = [op |-> "ifft_shift_coords", arg |-> call.res,
              res |-> ifft_shift_coords(dims, call.res, ZeroBuf(Len(call.res))),
              src |-> call.arg, chained |-> TRUE]
  /\ UNCHANGED <<dims, ctor>>
  /\ UNCHANGED decVars

Next ==
  \/ New
  \/ FromShape
  \/ WithDim
  \/ Numel
  \/ ShapeNs
  \/ CalcIdx
  \/ CalcAddr
  \/ CalcAddrOfIdx
  \/ FftShiftCoords
  \/ IfftShiftCoords
  \/ IfftOfFft
  \/ Return

Spec == Init /\ [][Next]_vars

(***************************************************************************)
(* bruker-fid-to-cfl: main, one action per step                            *)
(***************************************************************************)
InitDecode ==
  /\ dims = new
  /\ ctor = [op |-> "none", arg |-> <<>>]
  /\ call = NoCall
  /\ pc = "start"
  /\ inp \in DecodeInputs
  /\ ext = NoExt
  /\ geo = NoGeo
  /\ fid = NoFid
  /\ fid_data = <<>>
  /\ allocated = FALSE
  /\ todo = {}
  /\ worker = [w \in Workers |-> -1]
  /\ owner = <<>>
  /\ writes = <<>>
  /\ cfl = NoCfl
  /\ outcome = Running
  /\ TrajIdle

\* main returns or panics
Exit(o) ==
  /\ pc' = "done"
  /\ outcome' = o

\* lines 60-63: open and parse the acqp file
OpenAcqp ==
  /\ pc = "start"
  /\ IF inp.acqp_file = "unreadable" THEN Exit(IOError)
     ELSE IF inp.acqp_file = "unparsable" THEN Exit(PVError)
     ELSE pc' = "extract" /\ UNCHANGED outcome
  /\ UNCHANGED <<adVars, inp, trajVars, ext, geo, fid, fid_data, allocated, todo, worker,
                 owner, writes, cfl>>

\* lines 58 and 65-84: fetch and convert the five fields
Extract ==
  /\ pc = "extract"
  /\ IF extract_outcome(inp.params) # Running
     THEN Exit(extract_outcome(inp.params)) /\ UNCHANGED ext
     ELSE pc' = "plan" /\ ext' = extract_fields(inp) /\ UNCHANGED outcome
  /\ UNCHANGED <<adVars, inp, trajVars, geo, fid, fid_data, allocated, todo, worker, owner,
                 writes, cfl>>

\* lines 86-101: derive the file geometry
Plan ==
  /\ pc = "plan"
  /\ IF plan_outcome(ext) # Running
     THEN Exit(plan_outcome(ext)) /\ UNCHANGED geo
     ELSE pc' = "read" /\ geo' = plan(ext) /\ UNCHANGED outcome
  /\ UNCHANGED <<adVars, inp, trajVars, ext, fid, fid_data, allocated, todo, worker, owner,
                 writes, cfl>>

\* lines 114-117: open the fid file and read all of it
ReadFid ==
  /\ pc = "read"
  /\ IF inp.fid_file = "unreadable"
     THEN Exit(IOError) /\ UNCHANGED fid
     ELSE \E len \in FidLens(geo.expected_fid_file_size_bytes), seed \in SeedSet :
            /\ fid' = [read |-> TRUE, len |-> len, seed |-> seed]
            /\ pc' = "check"
            /\ UNCHANGED outcome
  /\ UNCHANGED <<adVars, inp, trajVars, ext, geo, fid_data, allocated, todo, worker, owner,
                 writes, cfl>>

\* lines 119-123: the file must have the expected size
SizeCheck ==
  /\ pc = "check"
  /\ IF size_ok(fid.len, geo.expected_fid_file_size_bytes)
     THEN pc' = "alloc" /\ UNCHANGED outcome
     ELSE Exit(PanicSize(geo.expected_fid_file_size_bytes, fid.len))
  /\ UNCHANGED <<adVars, inp, trajVars, ext, geo, fid, fid_data, allocated, todo, worker,
                 owner, writes, cfl>>

\* lines 125-129: allocate the output and split both buffers into chunk pairs
Alloc ==
  /\ pc = "alloc"
  /\ LET data == [k \in 1..geo.total_samples |-> ZERO]
     IN  /\ fid_data' = data
         /\ todo' = 0..(n_pairs(geo, fid, data) - 1)
         /\ owner' = [c \in 1..n_pairs(geo, fid, data) |-> 0]
         /\ writes' = [k \in 1..geo.total_samples |-> 0]
  /\ allocated' = TRUE
  /\ pc' = "decode"
  /\ UNCHANGED <<adVars, inp, trajVars, ext, geo, fid, worker, cfl, outcome>>

\* a pool thread takes one of the remaining chunk pairs
Claim(w) ==
  /\ pc = "decode"
  /\ worker[w] = -1
  /\ \E c \in todo :
       /\ todo' = todo \ {c}
       /\ worker' = [worker EXCEPT ![w] = c]
  /\ UNCHANGED <<adVars, pc, inp, trajVars, ext, geo, fid, fid_data, allocated, owner,
                 writes, cfl, outcome>>

\* lines 130-137: the thread runs the closure on its chunk pair
DecodeChunk(w) ==
  /\ pc = "decode"
  /\ worker[w] # -1
  /\ LET c == worker[w]
     IN  /\ fid_data' = decode_chunk(geo, ext, fid, fid_data, c)
         /\ writes' = [k \in 1..Len(writes) |->
                         IF chunk_writes(geo, ext, c, k - 1)
                         THEN writes[k] + 1 ELSE writes[k]]
         /\ owner' = [owner EXCEPT ![c + 1] = w]
  /\ worker' = [worker EXCEPT ![w] = -1]
  /\ UNCHANGED <<adVars, pc, inp, trajVars, ext, geo, fid, allocated, todo, cfl, outcome>>

\* for_each returns once every chunk pair has been processed
Join ==
  /\ pc = "decode"
  /\ todo = {}
  /\ \A w \in Workers : worker[w] = -1
  /\ pc' = "dims"
  /\ UNCHANGED <<adVars, inp, trajVars, ext, geo, fid, fid_data, allocated, todo, worker,
                 owner, writes, cfl, outcome>>

\* lines 140-144: build the output descriptor
BuildDims ==
  /\ pc = "dims"
  /\ IF Len(ext.acq_size) < 2
     THEN Exit(Panic("index out of bounds")) /\ UNCHANGED <<dims, ctor>>
     ELSE /\ dims' = from_shape(output_shape(ext))
          /\ ctor' = [op |-> "from_shape", arg |-> output_shape(ext)]
          /\ pc' = "checkdims"
          /\ UNCHANGED outcome
  /\ UNCHANGED <<call, inp, trajVars, ext, geo, fid, fid_data, allocated, todo, worker,
                 owner, writes, cfl>>

\* line 145: the descriptor must cover the decoded buffer
CheckDims ==
  /\ pc = "checkdims"
  /\ IF numel(dims) = Len(fid_data)
     THEN pc' = "write" /\ UNCHANGED outcome
     ELSE Exit(Panic("incorrect dimensions"))
  /\ UNCHANGED <<adVars, inp, trajVars, ext, geo, fid, fid_data, allocated, todo, worker,
                 owner, writes, cfl>>

\* lines 146-148: write_cfl writes shape and data, or panics in one of its
\* unwraps when the file cannot be written; then main returns Ok
WriteCfl ==
  /\ pc = "write"
  /\ \E writable \in BOOLEAN :
       IF writable
       THEN /\ cfl' = [written |-> TRUE, shape |-> dims.shape, data |-> fid_data]
            /\ Exit(Ok)
       ELSE /\ UNCHANGED cfl
            /\ Exit(Panic("write_cfl"))
  /\ UNCHANGED <<adVars, inp, trajVars, ext, geo, fid, fid_data, allocated, todo, worker,
                 owner, writes>>

NextDecode ==
  \/ OpenAcqp
  \/ Extract
  \/ Plan
  \/ ReadFid
  \/ SizeCheck
  \/ Alloc
  \/ \E w \in Workers : Claim(w)
  \/ \E w \in Workers : DecodeChunk(w)
  \/ Join
  \/ BuildDims
  \/ CheckDims
  \/ WriteCfl

SpecDecode == InitDecode /\ [][NextDecode]_vars

(***************************************************************************)
(* The geometry derivation alone, over a wider range of metadata           *)
(***************************************************************************)
PlanAcqSizeSet ==
  {<<0>>, <<1, 2>>, <<64>>, <<64, 32>>, <<2, 2>>, <<65, 1>>, <<128, 128, 3>>,
   <<256, 4, 4, 2>>}
PlanCountSet == 0..3
PlanOversampleSet == {<<>>, <<0>>, <<2>>, <<3>>}

PlanInputs ==
  {Input("ok", "ok", o, Params(PvInts(s), PvBools(m), PvInt(e), PvInt(r), PvStr(w))) :
     o \in PlanOversampleSet, s \in PlanAcqSizeSet, m \in MaskSet,
     e \in PlanCountSet, r \in PlanCountSet, w \in WordSizeSet}

InitPlan ==
  /\ dims = new
  /\ ctor = [op |-> "none", arg |-> <<>>]
  /\ call = NoCall
  /\ pc = "start"
  /\ inp \in PlanInputs
  /\ ext = NoExt
  /\ geo = NoGeo
  /\ fid = NoFid
  /\ fid_data = <<>>
  /\ allocated = FALSE
  /\ todo = {}
  /\ worker = [w \in Workers |-> -1]
  /\ owner = <<>>
  /\ writes = <<>>
  /\ cfl = NoCfl
  /\ outcome = Running
  /\ TrajIdle

NextPlan ==
  \/ OpenAcqp
  \/ Extract
  \/ Plan

SpecPlan == InitPlan /\ [][NextPlan]_vars

(***************************************************************************)
(* bruker-traj-to-cfl: main, one action per step                           *)
(***************************************************************************)
InitTraj ==
  /\ dims = new
  /\ ctor = [op |-> "none", arg |-> <<>>]
  /\ call = NoCall
  /\ pc = "t_start"
  /\ inp = NoInput
  /\ ext = NoExt
  /\ geo = NoGeo
  /\ fid = NoFid
  /\ fid_data = <<>>
  /\ allocated = FALSE
  /\ todo = {}
  /\ worker = [w \in Workers |-> -1]
  /\ owner = <<>>
  /\ writes = <<>>
  /\ cfl = NoCfl
  /\ outcome = Running
  /\ args \in TrajInputs
  /\ traj_bytes = NoTrajBytes
  /\ traj = <<>>
  /\ points_per_channel = 0
  /\ cfl_data = <<>>

\* lines 29-30: open the trajectory file and read it to the end
TrajRead ==
  /\ pc = "t_start"
  /\ IF args.traj_file = "unreadable"
     THEN Exit(IOError) /\ UNCHANGED traj_bytes
     ELSE \E len \in TrajByteLens, seed \in TrajSeedSet :
            /\ traj_bytes' = [read |-> TRUE, len |-> len, seed |-> seed]
            /\ pc' = "t_cast"
            /\ UNCHANGED outcome
  /\ UNCHANGED <<adVars, fidVars, args, traj, points_per_channel, cfl_data, todo,
                 worker, writes, cfl>>

\* line 31: view the bytes as doubles
TrajCast ==
  /\ pc = "t_cast"
  /\ IF ~cast_slice_ok(traj_bytes)
     THEN Exit(Panic("cast_slice")) /\ UNCHANGED traj
     ELSE traj' = cast_slice(traj_bytes) /\ pc' = "t_check" /\ UNCHANGED outcome
  /\ UNCHANGED <<adVars, fidVars, args, traj_bytes, points_per_channel, cfl_data,
                 todo, worker, writes, cfl>>

\* line 33: the remainder panics for a divisor of 0, the assertion when the
\* remainder is not 0
TrajCheck ==
  /\ pc = "t_check"
  /\ IF 3 * args.readout_size = 0
     THEN Exit(Panic("attempt to calculate the remainder with a divisor of zero"))
     ELSE IF ~traj_len_ok(Len(traj), args.readout_size)
     THEN Exit(Panic("number of traj samples must be divisible by 3"))
     ELSE pc' = "t_alloc" /\ UNCHANGED outcome
  /\ UNCHANGED <<adVars, fidVars, trajVars, todo, worker, writes, cfl>>

\* lines 35-38: derive points_per_channel, allocate the output and pair its
\* elements with the doubles
TrajAlloc ==
  /\ pc = "t_alloc"
  /\ points_per_channel' = Len(traj) \div (3 * args.readout_size)
  /\ cfl_data' = [k \in 1..Len(traj) |-> ZERO]
  /\ todo' = 0..(Len(traj) - 1)
  /\ writes' = [k \in 1..Len(traj) |-> 0]
  /\ pc' = "t_convert"
  /\ UNCHANGED <<adVars, fidVars, args, traj_bytes, traj, worker, cfl, outcome>>

\* a pool thread takes one of the remaining element pairs
TrajClaim(w) ==
  /\ pc = "t_convert"
  /\ worker[w] = -1
  /\ \E k \in todo :
       /\ todo' = todo \ {k}
       /\ worker' = [worker EXCEPT ![w] = k]
  /\ UNCHANGED <<adVars, fidVars, trajVars, pc, writes, cfl, outcome>>

\* lines 38-41: the thread runs the closure on its element pair
TrajConvert(w) ==
  /\ pc = "t_convert"
  /\ worker[w] # -1
  /\ LET k == worker[w]
     IN  /\ cfl_data' = [cfl_data EXCEPT ![k + 1] = traj_sample(traj[k + 1])]
         /\ writes' = [writes EXCEPT ![k + 1] = @ + 1]
  /\ worker' = [worker EXCEPT ![w] = -1]
  /\ UNCHANGED <<adVars, fidVars, args, traj_bytes, traj, points_per_channel, pc,
                 todo, cfl, outcome>>

\* for_each returns once every element pair has been processed
TrajJoin ==
  /\ pc = "t_convert"
  /\ todo = {}
  /\ \A w \in Workers : worker[w] = -1
  /\ pc' = "t_dims"
  /\ UNCHANGED <<adVars, fidVars, trajVars, todo, worker, writes, cfl, outcome>>

\* line 43: build the output descriptor
TrajDims ==
  /\ pc = "t_dims"
  /\ dims' = from_shape(traj_shape(args, points_per_channel))
  /\ ctor' = [op |-> "from_shape", arg |-> traj_shape(args, points_per_channel)]
  /\ pc' = "t_write"
  /\ UNCHANGED <<call, fidVars, trajVars, todo, worker, writes, cfl, outcome>>

\* lines 45-47: write_cfl writes shape and data, or panics in one of its
\* unwraps when the file cannot be written; then main returns Ok
TrajWrite ==
  /\ pc = "t_write"
  /\ \E writable \in BOOLEAN :
       IF writable
       THEN /\ cfl' = [written |-> TRUE, shape |-> dims.shape, data |-> cfl_data]
            /\ Exit(Ok)
       ELSE /\ UNCHANGED cfl
            /\ Exit(Panic("write_cfl"))
  /\ UNCHANGED <<adVars, fidVars, trajVars, todo, worker, writes>>

NextTraj ==
  \/ TrajRead
  \/ TrajCast
  \/ TrajCheck
  \/ TrajAlloc
  \/ \E w \in Workers : TrajClaim(w)
  \/ \E w \in Workers : TrajConvert(w)
  \/ TrajJoin
  \/ TrajDims
  \/ TrajWrite

SpecTraj == InitTraj /\ [][NextTraj]_vars

(***************************************************************************)
(* Claims about ArrayDim (checked under Spec)                              *)
(***************************************************************************)

\* C1: for a descriptor built by from_shape or with_dim and an offset o below
\* numel, every component of calc_idx(o) is below its axis size, and
\* calc_addr(calc_idx(o)) = o.
C1_AddrOfIdxIsOffset ==
  /\ call.op = "calc_idx" =>
       \A k \in 1..N_DIMS : call.res[k] < dims.shape[k]
  /\ (call.op = "calc_addr" /\ call.chained) =>
       /\ \A k \in 1..N_DIMS : call.arg[k] < dims.shape[k]
       /\ call.res = call.src

\* C1 witness: offset 5 of the 2 x 3 descriptor from from_shape came back
C1_Witness ==
  /\ ctor = [op |-> "from_shape", arg |-> <<2, 3>>]
  /\ call.op = "calc_addr" /\ call.chained
  /\ call.src = <<5>> /\ call.res = <<5>>
  /\ call.arg[1] = 1 /\ call.arg[2] = 2

\* C2: after any sequence of new, from_shape and with_dim, strides[0] = 1 and
\* strides[k] = strides[k-1] * shape[k-1] for every k in 1..15.
C2_StridesFollowShape ==
  /\ dims.strides[1] = 1
  /\ \A k \in 2..N_DIMS : dims.strides[k] = dims.strides[k - 1] * dims.shape[k - 1]

\* C8: for coordinates c below the axis sizes on every supplied axis,
\* ifft_shift_coords(fft_shift_coords(c)) = c.
C8_IfftUndoesFft ==
  (/\ call.op = "ifft_shift_coords" /\ call.chained
   /\ \A k \in 1..Len(call.src) : call.src[k] < dims.shape[k])
  => call.res = call.src

\* C8 witness: a round trip over an odd (3) and an even (2) axis
C8_Witness ==
  /\ call.op = "ifft_shift_coords" /\ call.chained
  /\ dims.shape[1] = 3 /\ dims.shape[2] = 2
  /\ call.src = <<2, 1>> /\ call.arg = <<0, 0>> /\ call.res = <<2, 1>>

AllOnes(sh) == \A k \in 1..Len(sh) : sh[k] = 1

\* C9: shape_ns is the shape with exactly the trailing run of size-1 axes
\* removed, has at least one axis, and is [1] when every axis is 1.
C9_ShapeNsTrimsTrailingOnes ==
  call.op = "shape_ns" =>
    LET r == call.res
    IN  /\ Len(r) >= 1 /\ Len(r) <= N_DIMS
        /\ \A k \in 1..Len(r) : r[k] = dims.shape[k]
        /\ \A k \in (Len(r) + 1)..N_DIMS : dims.shape[k] = 1
        /\ AllOnes(dims.shape) => r = <<1>>
        /\ ~AllOnes(dims.shape) => r[Len(r)] # 1

\* C9 witness: a leading singleton axis is kept, the fourteen trailing ones go
C9_Witness ==
  /\ call.op = "shape_ns"
  /\ dims.shape[1] = 1 /\ dims.shape[2] = 2
  /\ call.res = <<1, 2>>

\* C10: from_shape gives 16 slots, the first len(input) equal to the input and
\* the rest 1, and numel is the product of the input sizes (0 with a zero
\* axis, 1 for the empty or all-ones input).
C10_FromShapePadsWithOnes ==
  ctor.op = "from_shape" =>
    /\ Len(dims.shape) = N_DIMS /\ Len(dims.strides) = N_DIMS
    /\ \A k \in 1..N_DIMS :
         dims.shape[k] = IF k <= Len(ctor.arg) THEN ctor.arg[k] ELSE 1
    /\ call.op = "numel" =>
         /\ call.res = <<product(ctor.arg)>>
         /\ (\E k \in 1..Len(ctor.arg) : ctor.arg[k] = 0) => call.res = <<0>>
         /\ AllOnes(ctor.arg) => call.res = <<1>>

\* C10 witness: numel of from_shape([2, 3]) is 6
C10_Witness ==
  /\ ctor = [op |-> "from_shape", arg |-> <<2, 3>>]
  /\ call.op = "numel" /\ call.res = <<6>>
  /\ dims.shape[3] = 1 /\ dims.shape[N_DIMS] = 1

\* sum of idx[k] * st[k] over the first n positions
RECURSIVE StrideSum(_, _, _)
StrideSum(st, idx, n) ==
  IF n = 0 THEN 0 ELSE idx[n] * st[n] + StrideSum(st, idx, n - 1)

\* descriptors a second array may have: from_shape of every input shape, and
\* the three with_dim calls of tests::test2
OtherDescriptors ==
  {from_shape(sh) : sh \in ShapeInputs} \cup
  {with_dim(with_dim(with_dim(new, 0, a), 1, b), 2, c) : a, b, c \in DimSet}

\* the 16-component tuples that extend t and are below the axis size of d on
\* every axis from 1-based position k on
RECURSIVE InRangeExt(_, _, _)
InRangeExt(d, t, k) ==
  IF k > N_DIMS THEN {t}
  ELSE UNION {InRangeExt(d, Append(t, s), k + 1) : s \in 0..(d.shape[k] - 1)}

\* C11: calc_addr(idx) is the sum of idx[k] * strides[k] over the first
\* min(len(idx), 16) components (omitted components count as 0, components
\* past the 16th are ignored); and when idx has m <= 16 components, each below
\* its axis size, every descriptor with the same first m axis sizes gives idx
\* the same address, and gives every in-range tuple that extends idx with a
\* non-zero subscript on a later axis an address at or beyond the product of
\* the first m sizes.
C11_AddrIsStrideSum ==
  call.op = "calc_addr" =>
    LET idx == call.arg
        m == Len(idx)
    IN  /\ call.res = <<StrideSum(dims.strides, idx, Min(m, N_DIMS))>>
        /\ (m <= N_DIMS /\ \A k \in 1..m : idx[k] < dims.shape[k]) =>
             \A d2 \in OtherDescriptors :
               (\A k \in 1..m : d2.shape[k] = dims.shape[k]) =>
                 /\ calc_addr(d2, idx) = call.res[1]
                 /\ \A t \in InRangeExt(d2, idx, m + 1) :
                      (\E k \in (m + 1)..N_DIMS : t[k] # 0) =>
                        calc_addr(d2, t) >= product(SubSeq(dims.shape, 1, m))

\* C11 witness: subscripts (1, 2) of a 2 x 3 descriptor built by with_dim are
\* at address 5, and a 2 x 3 x 2 descriptor puts (1, 2, 1) at address 11
C11_Witness ==
  /\ ctor.op = "with_dim"
  /\ call.op = "calc_addr" /\ ~call.chained
  /\ call.arg = <<1, 2>> /\ call.res = <<5>>
  /\ dims.shape[1] = 2 /\ dims.shape[2] = 3
  /\ \E d2 \in OtherDescriptors :
       /\ d2.shape[1] = 2 /\ d2.shape[2] = 3 /\ d2.shape[3] = 2
       /\ calc_addr(d2, <<1, 2, 1>>) = 11

(***************************************************************************)
(* Claims about the fid decoder (checked under SpecDecode and SpecPlan)    *)
(***************************************************************************)

\* the parallel loop has returned
Decoded == allocated /\ pc # "decode"

\* C3: with a file of exactly the expected size, output element
\* c * chunk_size_samples + j holds the 32-bit integers at byte offsets
\* c * blocks_per_chunk * BLOCK_SIZE + 8 * j (real) and + 4 (imaginary), for
\* every chunk c and sample j; the padding after each chunk is not used.
C3_SamplesComeFromChunkOffsets ==
  (Decoded /\ fid.len = geo.expected_fid_file_size_bytes) =>
    \A c \in 0..(geo.n_chunks - 1), j \in 0..(geo.chunk_size_samples - 1) :
      LET off == c * geo.blocks_per_chunk * BLOCK_SIZE + 8 * j
      IN  fid_data[c * geo.chunk_size_samples + j + 1] =
            [re |-> as_f32(i32_at(fid, off)), im |-> as_f32(i32_at(fid, off + 4))]

\* C3 witness: two chunks of two blocks each, with padding, were decoded and
\* written out
C3_Witness ==
  /\ pc = "done" /\ cfl.written
  /\ geo.n_chunks = 2 /\ geo.blocks_per_chunk = 2
  /\ geo.chunk_size_samples * 8 < geo.blocks_per_chunk * BLOCK_SIZE
  /\ fid.len = geo.expected_fid_file_size_bytes
  /\ fid_data[geo.chunk_size_samples + 1] # fid_data[1]
  /\ Byte(fid.seed, geo.chunk_size_samples * 8) # 0

\* C4 as stated: a file whose length differs from the expected one ends main
\* with a SizeMismatch error value carrying both lengths, and no output is
\* allocated or written.
C4_SizeMismatchIsErrorValue ==
  (pc = "done" /\ fid.read /\ fid.len # geo.expected_fid_file_size_bytes) =>
    /\ outcome.kind = "err" /\ outcome.what = "SizeMismatch"
    /\ outcome.expected = geo.expected_fid_file_size_bytes
    /\ outcome.actual = fid.len
    /\ ~allocated /\ fid_data = <<>> /\ ~cfl.written

\* C4 amended: a file whose length differs from the expected one ends main
\* with the panic of the size assertion, whose message carries both lengths;
\* no output is allocated, populated or written.
C4_SizeMismatchPanics ==
  (fid.read /\ fid.len # geo.expected_fid_file_size_bytes) =>
    /\ ~allocated /\ fid_data = <<>> /\ ~cfl.written
    /\ \A k \in 1..Len(writes) : writes[k] = 0
    /\ \/ pc = "check"
       \/ /\ pc = "done"
          /\ outcome = PanicSize(geo.expected_fid_file_size_bytes, fid.len)

\* C4 witness: a file one byte short of 1024 was rejected
C4_Witness ==
  /\ pc = "done" /\ fid.read
  /\ geo.expected_fid_file_size_bytes = 1024 /\ fid.len = 1023
  /\ outcome.kind = "panic" /\ outcome.expected = 1024 /\ outcome.actual = 1023

\* C5: for every accepted metadata set the decoded element count
\* n_chunks * chunk_size_samples is numel of the descriptor built from
\* [readout, receivers, echoes, remaining acquisition axes..., repetitions],
\* and the conversion reaches the write (it does not panic before it) with a
\* descriptor covering the buffer.
C5_DescriptorCoversBuffer ==
  Decoded =>
    /\ geo.n_chunks * geo.chunk_size_samples =
         numel(from_shape(<<ext.acq_size[1] \div ext.oversampling_factor,
                            ext.receivers, ext.n_echoes>>
                          \o Tail(ext.acq_size) \o <<ext.n_repeats>>))
    /\ outcome.kind = "panic" => outcome.what = "write_cfl"
    /\ pc \in {"write", "done"} => numel(dims) = Len(fid_data)

\* C6: whenever field extraction passes, the derivation does not fail and
\* gives chunk_size_samples = floor(acq_size[0] / oversampling) * receivers *
\* echoes, blocks_per_chunk = ceil(chunk_size_samples * 8 / 1024), n_chunks =
\* product(acq_size[1..]) * repetitions and expected_byte_length = n_chunks *
\* blocks_per_chunk * 1024 ([64,32], 2 receivers, 1 echo, 1 repetition:
\* 128, 1, 32, 32768).
C6_GeometryDerived ==
  (extract_outcome(inp.params) = Running /\ (pc = "read" \/ pc = "done")) =>
    /\ outcome.kind # "panic"
    /\ geo.chunk_size_samples =
         (ext.acq_size[1] \div ext.oversampling_factor) * ext.receivers * ext.n_echoes
    /\ geo.blocks_per_chunk * 1024 >= geo.chunk_size_samples * 8
    /\ (geo.blocks_per_chunk - 1) * 1024 < geo.chunk_size_samples * 8
    /\ geo.n_chunks = product(Tail(ext.acq_size)) * ext.n_repeats
    /\ geo.expected_fid_file_size_bytes = geo.n_chunks * geo.blocks_per_chunk * 1024
    /\ (/\ ext.acq_size = <<64, 32>> /\ ext.oversampling_factor = 1
        /\ ext.receivers = 2 /\ ext.n_echoes = 1 /\ ext.n_repeats = 1)
       => /\ geo.chunk_size_samples = 128 /\ geo.blocks_per_chunk = 1
          /\ geo.n_chunks = 32 /\ geo.expected_fid_file_size_bytes = 32768

\* two chunk pairs share no output element
Disjoint(c1, c2) ==
  \A k \in 0..(Len(fid_data) - 1) :
    ~(chunk_writes(geo, ext, c1, k) /\ chunk_writes(geo, ext, c2, k))

\* C7, the state part: no output element is written twice, the chunks two
\* workers hold at once share no output element, and once the loop has
\* returned every element was written exactly once and the buffer is the
\* function of the input that no schedule enters.
C7_State ==
  /\ \A k \in 1..Len(writes) : writes[k] <= 1
  /\ \A w1 \in Workers, w2 \in Workers :
       (w1 # w2 /\ worker[w1] # -1 /\ worker[w2] # -1) =>
         (worker[w1] # worker[w2] /\ Disjoint(worker[w1], worker[w2]))
  /\ Decoded =>
       /\ \A k \in 1..Len(writes) : writes[k] = 1
       /\ Len(writes) = geo.n_chunks * geo.chunk_size_samples
       /\ fid_data =
            [k \in 1..geo.total_samples |->
               decode_sample(geo, ext, fid, (k - 1) \div geo.chunk_size_samples,
                             (k - 1) % geo.chunk_size_samples)]

\* C7: every schedule of the workers ends with the same output buffer, no two
\* workers write the same output element, every element is written exactly
\* once, and the input buffer is only read.
C7_ScheduleIndependent ==
  /\ []C7_State
  /\ [][fid.read => fid' = fid]_vars

\* C7 witness: the loop returned after worker 2 decoded chunk 0 and worker 1
\* decoded chunk 1
C7_Witness ==
  /\ pc = "dims"
  /\ Len(owner) >= 2 /\ owner[1] = 2 /\ owner[2] = 1
  /\ geo.chunk_size_samples >= 2
  /\ \A k \in 1..Len(writes) : writes[k] = 1

\* the four keys converted to a typed value, and the variant each must hold
ConvertedKeys == {ACQ_SIZE, RECEIVERS, N_ECHOES, N_REPEATS}
ExpectedKind(k) ==
  IF k = ACQ_SIZE THEN "ints" ELSE IF k = RECEIVERS THEN "bools" ELSE "int"

\* the acqp file holds a fault of one of the three kinds
HasFault(p) ==
  \/ \E k \in ConvertedKeys \cup {WORD_SIZE} : p[k].kind = "absent"
  \/ \E k \in ConvertedKeys : p[k].kind # ExpectedKind(k)
  \/ to_string(p[WORD_SIZE]) # "_32_BIT"

\* o is the error of one of the faults of p; a value that is not convertible
\* is reported by the key's name when named, by the value itself otherwise
ErrorFits(o, p, named) ==
  \/ \E k \in ConvertedKeys \cup {WORD_SIZE} :
       p[k].kind = "absent" /\ o = FieldNotFound(k)
  \/ \E k \in ConvertedKeys :
       /\ p[k].kind \notin {"absent", ExpectedKind(k)}
       /\ o.kind = "err" /\ o.what = "UnexpectedFormat"
       /\ IF named THEN o.name = k ELSE o.name = "" /\ o.value = p[k]
  \/ /\ p[WORD_SIZE].kind # "absent"
     /\ to_string(p[WORD_SIZE]) # "_32_BIT"
     /\ o = UnexpectedDataType(to_string(p[WORD_SIZE]))

\* a readable acqp file with a fault has been through the extraction: main
\* has returned the error of one of its faults, the fid file was never read,
\* no word size was taken and there is no output
FaultRejected(named) ==
  (/\ pc \notin {"idle", "start", "extract"}
   /\ inp.acqp_file = "ok"
   /\ HasFault(inp.params))
  => /\ pc = "done"
     /\ ErrorFits(outcome, inp.params, named)
     /\ ext = NoExt /\ geo = NoGeo
     /\ ~fid.read /\ ~allocated /\ fid_data = <<>> /\ ~cfl.written

\* C12 as stated: an absent key, a value of the wrong type or a word size
\* other than "_32_BIT" ends main in an error value before the fid file is
\* read and with no output; the error is FieldNotFound with the key,
\* UnexpectedFormat naming the field, or UnexpectedDataType with the word
\* size, and no word size is defaulted to 8 bytes.
C12_MalformedNamesField == FaultRejected(TRUE)

\* C12 amended: as above, but UnexpectedFormat carries the offending value
\* and not the name of its field.
C12_MalformedCarriesValue == FaultRejected(FALSE)

\* C12 witness: NECHOES holding a string ended main with UnexpectedFormat of
\* that value, the fid file unread
C12_Witness ==
  /\ pc = "done"
  /\ inp.acqp_file = "ok"
  /\ inp.params.NECHOES = PvStr("x")
  /\ inp.params.ACQ_word_size = PvStr("_32_BIT")
  /\ outcome = UnexpectedFormat(PvStr("x"))
  /\ ~fid.read /\ ~cfl.written

\* the f32 x = <<m, e>> is the integer v
ExactF32(x, v) == v % Pow2(x[2]) = 0 /\ v \div Pow2(x[2]) = x[1]

\* the f32 x = <<m, e>> is the f32 nearest to the integer v, the one with the
\* even significand when v is halfway between two; the significand has 24
\* bits and is full whenever the exponent is above 0
NearestF32(x, v) ==
  LET m == x[1]
      e == x[2]
      q == v \div Pow2(e)
      r == v % Pow2(e)
      am == IF m < 0 THEN -m ELSE m
  IN  /\ e >= 0 /\ am < 16777216 /\ (e = 0 \/ am >= 8388608)
      /\ \/ m = q /\ 2 * r < Pow2(e)
         \/ m = q + 1 /\ 2 * r > Pow2(e)
         \/ m \in {q, q + 1} /\ 2 * r = Pow2(e) /\ m % 2 = 0

\* C13 as stated: every decoded real and imaginary component equals the
\* 32-bit signed integer it was read from, over the whole range of i32.
C13_WideningIsExact ==
  (Decoded /\ fid.len = geo.expected_fid_file_size_bytes) =>
    \A c \in 0..(geo.n_chunks - 1), j \in 0..(geo.chunk_size_samples - 1) :
      LET off == c * geo.blocks_per_chunk * BLOCK_SIZE + 8 * j
          z == fid_data[c * geo.chunk_size_samples + j + 1]
      IN  ExactF32(z.re, i32_at(fid, off)) /\ ExactF32(z.im, i32_at(fid, off + 4))

\* C13 amended: every decoded component is the f32 nearest to the integer it
\* was read from (ties to the even significand); it equals the integer
\* whenever the magnitude is at most 2^24, and no scaling is applied.
C13_WideningRoundsToNearest ==
  (Decoded /\ fid.len = geo.expected_fid_file_size_bytes) =>
    \A c \in 0..(geo.n_chunks - 1), j \in 0..(geo.chunk_size_samples - 1) :
      LET off == c * geo.blocks_per_chunk * BLOCK_SIZE + 8 * j
          z == fid_data[c * geo.chunk_size_samples + j + 1]
          re == i32_at(fid, off)
          im == i32_at(fid, off + 4)
      IN  /\ NearestF32(z.re, re) /\ NearestF32(z.im, im)
          /\ (-16777216 <= re /\ re <= 16777216) => ExactF32(z.re, re)
          /\ (-16777216 <= im /\ im <= 16777216) => ExactF32(z.im, im)

\* C13 witness: the sample (i32::MAX, i32::MIN) was decoded to (2^31, -2^31)
\* and written out
C13_Witness ==
  /\ pc = "done" /\ cfl.written
  /\ Len(cfl.data) > 0
  /\ i32_at(fid, 0) = 2147483647
  /\ i32_at(fid, 4) = -2147483647 - 1
  /\ cfl.data[1] = Complex32(<<8388608, 8>>, <<-8388608, 8>>)

(***************************************************************************)
(* Claims about the trajectory decoder (checked under SpecTraj)            *)
(***************************************************************************)

\* the f32 x is the double v
ExactOfF64(x, v) == ExactF32(<<x[1], x[2] - v[2]>>, v[1])

\* the f32 x is the f32 nearest to the double v (ties to the even significand)
NearestOfF64(x, v) == NearestF32(<<x[1], x[2] - v[2]>>, v[1])

\* the doubles were read and the size check has been passed or failed
TrajChecked ==
  /\ traj_bytes.read /\ cast_slice_ok(traj_bytes)
  /\ pc \in {"t_alloc", "t_convert", "t_dims", "t_write", "done"}

\* total_samples is an exact multiple of 3 * readout_size
TrajSizeFits ==
  /\ args.readout_size > 0
  /\ Len(traj) % (3 * args.readout_size) = 0

\* what was written: the descriptor [3, readout_size, points_per_channel]
\* covers the output, which has one element per double, in input order
TrajOutputShaped ==
  /\ TrajSizeFits
  /\ cfl.shape = from_shape_dims(<<3, args.readout_size,
                                   Len(traj) \div (3 * args.readout_size)>>)
  /\ product(cfl.shape) = Len(cfl.data)
  /\ numel(dims) = Len(cfl.data)
  /\ Len(cfl.data) = Len(traj)

\* C14 as stated: output is written only when total_samples is an exact
\* multiple of 3 * readout_size; then the descriptor
\* [3, readout_size, points_per_channel] has numel equal to the output length
\* and every element is (the input value, 0) in input order; any other
\* total_samples or readout_size ends main with a SizeMismatch error value,
\* nothing truncated or written.
C14_RejectsWithSizeMismatch ==
  /\ cfl.written =>
       /\ TrajOutputShaped
       /\ \A k \in 1..Len(cfl.data) :
            ExactOfF64(cfl.data[k].re, traj[k]) /\ cfl.data[k].im = <<0, 0>>
  /\ (TrajChecked /\ ~TrajSizeFits) =>
       /\ pc = "done"
       /\ outcome.kind = "err" /\ outcome.what = "SizeMismatch"
       /\ cfl_data = <<>> /\ ~cfl.written

\* C14 amended: as above, but every element is (the input value converted
\* to f32, rounded to nearest, 0), and any other total_samples or
\* readout_size, 0 included, ends main with a panic instead of an error
\* value, nothing allocated, truncated or written.
C14_RejectsWithPanic ==
  /\ cfl.written =>
       /\ TrajOutputShaped
       /\ \A k \in 1..Len(cfl.data) :
            NearestOfF64(cfl.data[k].re, traj[k]) /\ cfl.data[k].im = <<0, 0>>
  /\ (TrajChecked /\ ~TrajSizeFits) =>
       /\ pc = "done"
       /\ outcome.kind = "panic"
       /\ outcome.what \in {"number of traj samples must be divisible by 3",
                            "attempt to calculate the remainder with a divisor of zero"}
       /\ cfl_data = <<>> /\ ~cfl.written

\* C14 witness: six doubles with readout_size 2 were written as [3, 2, 1],
\* one of them rounded by the conversion
C14_Witness ==
  /\ pc = "done" /\ cfl.written
  /\ args.readout_size = 2 /\ Len(traj) = 6 /\ points_per_channel = 1
  /\ cfl.shape[1] = 3 /\ cfl.shape[2] = 2 /\ cfl.shape[3] = 1
  /\ \E k \in 1..6 :
       traj[k] = <<16777217, 0>> /\ cfl.data[k] = Complex32(<<8388608, 1>>, <<0, 0>>)

====
